---------------------------- MODULE Spec2Model ----------------------------
(***************************************************************************)
(* Colour conversion engine of go-hue (colors.go), the Light methods of    *)
(* hue.go that drive it, NewSession of hue.go and GetMeetHueScenes of      *)
(* meethue.go.                                                             *)
(*                                                                         *)
(* float64 is modelled as decimal fixed point: the integer n stands for    *)
(* the real n / Unit, and every multiplication, division, square root and  *)
(* power rounds its exact result to that grid, as the float64 operation    *)
(* rounds its exact result to 53 bits.  Addition and subtraction of grid   *)
(* values are exact.  NaN, +Inf and -Inf are three reserved integers       *)
(* outside the finite range, and the operators below give them the IEEE    *)
(* 754 results.                                                            *)
(***************************************************************************)
EXTENDS Integers, Sequences, FiniteSets, TLC

VARIABLES
    model,      \* Light.Model, the model identifier the hub reported
    xy,         \* Light.State.Xy
    brightness, \* Light.State.Brightness
    build,      \* what the build's float64 -> uint8 conversion does out of range
    rgb,        \* the colour the caller passes to SetColorRGB
    call,       \* the conversion call made last: its function, inputs and result
    gamuts,     \* the package variables gamutA, gamutB, gamutC and gamutD
    stdlog,     \* the lines the standard logger of package log has written
    procs,      \* the goroutines that call the conversions at the same time
    fetch,      \* the call of GetMeetHueScenes in progress and its site
    hex         \* the string the caller passes to SetColorHex

vars ==
    <<model, xy, brightness, build, rgb, call, gamuts, stdlog, procs, fetch, hex>>

---------------------------------------------------------------------------
(* float64 *)

Unit == 10000 * 1000            \* the float64 1.0
Kilo == 10 * 1000               \* limb base of the products below: Kilo * 1000 = Unit

NaN  == 2147483600 + 47
PInf == 2147483600 + 46
NInf == 0 - PInf

IsNaN(a) == a = NaN
IsInf(a) == a = PInf \/ a = NInf
Finite(a) == ~IsNaN(a) /\ ~IsInf(a)

Abs(a) == IF a < 0 THEN 0 - a ELSE a
Sgn(a) == IF a > 0 THEN 1 ELSE IF a < 0 THEN 0 - 1 ELSE 0

\* floor and remainder of a*b/Unit for finite a, b >= 0, without a product
\* wider than 31 bits: a = a1*Kilo + a0, b = b1*Kilo + b0.
MulParts(a, b) ==
    LET a1 == a \div Kilo
        a0 == a % Kilo
        b1 == b \div Kilo
        b0 == b % Kilo
        m  == a1 * b0 + a0 * b1
        lo == (m % 1000) * Kilo + a0 * b0
    IN  <<a1 * b1 * 10 + m \div 1000 + lo \div Unit, lo % Unit>>

\* <<q, r>> rounded to the nearest integer, halves upward, r being the remainder
\* of a division by c
RoundHalfUp(p, c) == IF 2 * p[2] >= c THEN p[1] + 1 ELSE p[1]

\* the same, halves downward
RoundHalfDown(p, c) == IF 2 * p[2] > c THEN p[1] + 1 ELSE p[1]

\* a*b rounded to the nearest grid value (finite operands)
MulRound(a, b) == Sgn(a) * Sgn(b) * RoundHalfUp(MulParts(Abs(a), Abs(b)), Unit)

\* a*b rounded toward zero (finite operands >= 0)
MulFloor(a, b) == MulParts(a, b)[1]

\* one digit d of the long multiplication below: h is <<q, r>> so far
MulDivStep(h, d, a, c) ==
    <<8 * h[1] + d * (a \div c) + (8 * h[2] + d * (a % c)) \div c,
      (8 * h[2] + d * (a % c)) % c>>

\* <<q, r>> with a*n = q*c + r and 0 <= r < c, for a, n >= 0 and c > 0, by
\* long multiplication over the base-8 digits of n (15*c stays below 2^31)
RECURSIVE MulDivQR(_, _, _)
MulDivQR(a, n, c) ==
    IF n = 0 THEN <<0, 0>>
    ELSE MulDivStep(MulDivQR(a, n \div 8, c), n % 8, a, c)

\* a/b rounded to the nearest grid value (finite operands, b # 0)
DivRound(a, b) ==
    Sgn(a) * Sgn(b) * RoundHalfUp(MulDivQR(Abs(a), Unit, Abs(b)), Abs(b))

\* IEEE 754 operations on the grid with the three special values
FNeg(a) == IF IsNaN(a) THEN NaN ELSE 0 - a

FAdd(a, b) ==
    IF IsNaN(a) \/ IsNaN(b) THEN NaN
    ELSE IF IsInf(a) /\ IsInf(b) THEN (IF a = b THEN a ELSE NaN)
    ELSE IF IsInf(a) THEN a
    ELSE IF IsInf(b) THEN b
    ELSE a + b

FSub(a, b) == FAdd(a, FNeg(b))

FMul(a, b) ==
    IF IsNaN(a) \/ IsNaN(b) THEN NaN
    ELSE IF IsInf(a) \/ IsInf(b)
         THEN (IF a = 0 \/ b = 0 THEN NaN
               ELSE IF Sgn(a) * Sgn(b) > 0 THEN PInf ELSE NInf)
    ELSE MulRound(a, b)

FDiv(a, b) ==
    IF IsNaN(a) \/ IsNaN(b) THEN NaN
    ELSE IF IsInf(a) THEN (IF IsInf(b) THEN NaN
                           ELSE IF Sgn(a) * (IF b < 0 THEN 0 - 1 ELSE 1) > 0
                                THEN PInf ELSE NInf)
    ELSE IF IsInf(b) THEN 0
    ELSE IF b = 0 THEN (IF a = 0 THEN NaN ELSE IF a > 0 THEN PInf ELSE NInf)
    ELSE DivRound(a, b)

\* comparisons: every comparison with NaN is false
FLe(a, b) == ~IsNaN(a) /\ ~IsNaN(b) /\ a <= b
FLt(a, b) == ~IsNaN(a) /\ ~IsNaN(b) /\ a < b
FGe(a, b) == FLe(b, a)
FGt(a, b) == FLt(b, a)
FEq(a, b) == ~IsNaN(a) /\ ~IsNaN(b) /\ a = b

\* math.Max and math.Min of Go: an infinity wins over NaN, then NaN over the rest
FMax(a, b) ==
    IF a = PInf \/ b = PInf THEN PInf
    ELSE IF IsNaN(a) \/ IsNaN(b) THEN NaN
    ELSE IF a > b THEN a ELSE b

FMin(a, b) ==
    IF a = NInf \/ b = NInf THEN NInf
    ELSE IF IsNaN(a) \/ IsNaN(b) THEN NaN
    ELSE IF a < b THEN a ELSE b

\* the largest r in lo..hi with r*r <= v (lo satisfies it)
RECURSIVE SqrtSearch(_, _, _)
SqrtSearch(v, lo, hi) ==
    IF lo >= hi THEN lo
    ELSE LET mid == (lo + hi + 1) \div 2
         IN  IF MulFloor(mid, mid) <= v THEN SqrtSearch(v, mid, hi)
             ELSE SqrtSearch(v, lo, mid - 1)

\* math.Sqrt
FSqrt(v) ==
    IF IsNaN(v) \/ v < 0 THEN NaN
    ELSE IF v = PInf THEN PInf
    ELSE SqrtSearch(v, 0, 14 * Unit)

Pow2(r) == MulFloor(r, r)
Pow4(r) == Pow2(Pow2(r))
Pow5(r) == MulFloor(Pow4(r), r)
Pow3(r) == MulFloor(Pow2(r), r)
Pow12(r) == Pow3(Pow4(r))

\* the largest r in lo..hi with r^5 <= w
RECURSIVE Root5Search(_, _, _)
Root5Search(w, lo, hi) ==
    IF lo >= hi THEN lo
    ELSE LET mid == (lo + hi + 1) \div 2
         IN  IF Pow5(mid) <= w THEN Root5Search(w, mid, hi)
             ELSE Root5Search(w, lo, mid - 1)

\* the largest r in lo..hi with r^12 <= c
RECURSIVE Root12Search(_, _, _)
Root12Search(c, lo, hi) ==
    IF lo >= hi THEN lo
    ELSE LET mid == (lo + hi + 1) \div 2
         IN  IF Pow12(mid) <= c THEN Root12Search(c, mid, hi)
             ELSE Root12Search(c, lo, mid - 1)

\* w^(6/5) for w >= 0
PowSixFifths(w) == MulRound(w, Root5Search(w, 0, (5 * Unit) \div 2))

\* math.Pow(x, 2.4) = (x^2)^(6/5)
PowGamma(x) ==
    IF IsNaN(x) \/ x < 0 THEN NaN
    ELSE IF x = PInf THEN PInf
    ELSE PowSixFifths(MulRound(x, x))

\* r^5 rounded at every product
Pow5Round(r) == MulRound(MulRound(MulRound(r, r), MulRound(r, r)), r)

\* math.Pow(c, 1.0/2.4) = (c^(1/12))^5
PowInvGamma(c) ==
    IF IsNaN(c) \/ c < 0 THEN NaN
    ELSE IF c = PInf THEN PInf
    ELSE Pow5Round(Root12Search(c, 0, (3 * Unit) \div 2))

\* float64(n) for an int n, and the decimal literals of the source
Float(n)  == n * Unit
Dec4(n)   == n * 1000          \* n / 10000
Micro(n)  == n * 10            \* n / 1000000

\* math.Ceil(c*255.0 - 0.5), an integral float64 given as that integer
CeilScaled(c) ==
    IF ~Finite(c) THEN c
    ELSE IF c >= 0 THEN RoundHalfDown(MulDivQR(c, 255, Unit), Unit)
    ELSE 0 - RoundHalfUp(MulDivQR(0 - c, 255, Unit), Unit)

\* The Go specification leaves uint8(f) to the implementation when f is not
\* in 0..255.  Both builds modelled keep the low 8 bits of the 64-bit integer
\* the hardware conversion yields; for NaN and +Inf that integer is the
\* smallest int64 on a "nan_min" build (low byte 0) and the largest on a
\* "nan_max" build (low byte 255).
Builds == {"nan_min", "nan_max"}

ToUint8(v) ==
    IF Finite(v) THEN v % 256
    ELSE IF v = NInf THEN 0
    ELSE IF build = "nan_min" THEN 0 ELSE 255


---------------------------------------------------------------------------
(* geometry *)

Point(px, py) == [x |-> px, y |-> py]

gamutA == [red |-> Point(Dec4(7040), Dec4(2960)),
           green |-> Point(Dec4(2151), Dec4(7106)),
           blue |-> Point(Dec4(1380), Dec4(800))]

gamutB == [red |-> Point(Dec4(6750), Dec4(3220)),
           green |-> Point(Dec4(4091), Dec4(5180)),
           blue |-> Point(Dec4(1670), Dec4(400))]

gamutC == [red |-> Point(Dec4(6920), Dec4(3080)),
           green |-> Point(Dec4(1700), Dec4(7000)),
           blue |-> Point(Dec4(1530), Dec4(480))]

gamutD == [red |-> Point(Float(1), Float(0)),
           green |-> Point(Float(0), Float(1)),
           blue |-> Point(Float(0), Float(0))]

\* GetGamut with "LLM001" left out of its second case
GetGamut_NoLLM001(m) ==
    IF m \in {"LST001", "LLC010", "LLC011", "LLC012", "LLC006", "LLC007", "LLC013"}
    THEN gamutA
    ELSE IF m \in {"LCT001", "LCT007", "LCT002", "LCT003"}
    THEN gamutB
    ELSE IF m \in {"LCT010", "LCT014", "LCT011", "LLC020", "LST002"}
    THEN gamutC
    ELSE gamutD

GetGamut(m) ==
    IF m \in {"LST001", "LLC010", "LLC011", "LLC012", "LLC006", "LLC007", "LLC013"}
    THEN gamutA
    ELSE IF m \in {"LCT001", "LCT007", "LCT002", "LCT003", "LLM001"}
    THEN gamutB
    ELSE IF m \in {"LCT010", "LCT014", "LCT011", "LLC020", "LST002"}
    THEN gamutC
    ELSE gamutD

crossProduct(p1, p2) == FSub(FMul(p1.x, p2.y), FMul(p1.y, p2.x))

\* point{b.x - a.x, b.y - a.y}
Minus(b, a) == Point(FSub(b.x, a.x), FSub(b.y, a.y))

\* s and t of inLampsReach from its vectors v1, v2 and q
ReachSolve(v1, v2, q) ==
    [s |-> FDiv(crossProduct(q, v2), crossProduct(v1, v2)),
     t |-> FDiv(crossProduct(v1, q), crossProduct(v1, v2))]

\* the coordinates s, t of (px, py) in the basis (green-red, blue-red)
ReachCoords(gamut, px, py) ==
    ReachSolve(Minus(gamut.green, gamut.red), Minus(gamut.blue, gamut.red),
               Minus(Point(px, py), gamut.red))

\* the test of inLampsReach with s+t < 1.0 for s+t <= 1.0
ReachTest_Strict(c) == FGe(c.s, 0) /\ FGe(c.t, 0) /\ FLt(FAdd(c.s, c.t), Unit)

\* s >= 0.0 && t >= 0.0 && s+t <= 1.0
ReachTest(c) == FGe(c.s, 0) /\ FGe(c.t, 0) /\ FLe(FAdd(c.s, c.t), Unit)

inLampsReach(gamut, px, py) == ReachTest(ReachCoords(gamut, px, py))

\* ab.x*ab.x + ab.y*ab.y and ap.x*ab.x + ap.y*ab.y
Dot(u, v) == FAdd(FMul(u.x, v.x), FMul(u.y, v.y))

\* t of closestPointOnLine after its two tests
ClampT(t) == IF FLt(t, 0) THEN 0 ELSE IF FGt(t, Unit) THEN Unit ELSE t

\* point{a.x + ab.x*t, a.y + ab.y*t}
Along(a, ab, t) == Point(FAdd(a.x, FMul(ab.x, t)), FAdd(a.y, FMul(ab.y, t)))

\* closestPointOnLine from its vectors ap and ab
Project(a, ap, ab) == Along(a, ab, ClampT(FDiv(Dot(ap, ab), Dot(ab, ab))))

closestPointOnLine(a, b, p) == Project(a, Minus(p, a), Minus(b, a))

\* math.Sqrt(dx*dx + dy*dy)
Norm(d) == FSqrt(Dot(d, d))

distance(a, b) == Norm(Minus(a, b))

\* the switch of closestPointOnTriangle: a case is taken when the minimum == it
SwitchMin(min, pAB, pAC, pBC, dAB, dAC) ==
    IF FEq(min, dAB) THEN pAB
    ELSE IF FEq(min, dAC) THEN pAC
    ELSE pBC

\* closestPointOnTriangle with "case dBC" second and pAC the default
Nearest_Swapped(pAB, pAC, pBC, dAB, dAC, dBC) ==
    SwitchMin(FMin(FMin(dAB, dAC), dBC), pAB, pBC, pAC, dAB, dBC)

\* closestPointOnTriangle from the three distances
Nearest(pAB, pAC, pBC, dAB, dAC, dBC) ==
    SwitchMin(FMin(FMin(dAB, dAC), dBC), pAB, pAC, pBC, dAB, dAC)

\* closestPointOnTriangle from the three projections
NearestOf(p, pAB, pAC, pBC) ==
    Nearest(pAB, pAC, pBC, distance(p, pAB), distance(p, pAC), distance(p, pBC))

closestPointOnTriangle(gamut, px, py) ==
    NearestOf(Point(px, py),
              closestPointOnLine(gamut.red, gamut.green, Point(px, py)),
              closestPointOnLine(gamut.blue, gamut.red, Point(px, py)),
              closestPointOnLine(gamut.green, gamut.blue, Point(px, py)))

---------------------------------------------------------------------------
(* colour conversion *)

\* float64(n) / 255.0 for an int n: the ratio of two integers on the grid
ScaleDown(n) == DivRound(n, 255)

\* the "gamma correct" step of ToXyY on one scaled channel
GammaExpand(c) ==
    IF FGt(c, Micro(40450))
    THEN PowGamma(FDiv(FAdd(c, Micro(55000)), FAdd(Float(1), Micro(55000))))
    ELSE FDiv(c, Micro(12920000))

\* the channel values the callers of this model pass
ChanSteps == 1
Levels == {(255 * k) \div ChanSteps : k \in 0..ChanSteps} \cup {1, 128}

\* ints outside 0..255, which SetColorRGB accepts as well
AnyInts == {0 - 255, 0, 255, 256, 510}

\* a string is the sequence of its bytes; these are the bytes of the strings
\* given to SetColorHex
HexAlphabet == {"f", "0", "F", "#", "x", "-"}

\* the value of a byte that [a-fA-F0-9] matches
HexDigit ==
    [c \in {"0", "1", "2", "3", "4", "5", "6", "7", "8", "9",
            "a", "b", "c", "d", "e", "f", "A", "B", "C", "D", "E", "F"} |->
        CASE c = "0" -> 0 [] c = "1" -> 1 [] c = "2" -> 2 [] c = "3" -> 3
          [] c = "4" -> 4 [] c = "5" -> 5 [] c = "6" -> 6 [] c = "7" -> 7
          [] c = "8" -> 8 [] c = "9" -> 9
          [] c \in {"a", "A"} -> 10 [] c \in {"b", "B"} -> 11
          [] c \in {"c", "C"} -> 12 [] c \in {"d", "D"} -> 13
          [] c \in {"e", "E"} -> 14 [] c \in {"f", "F"} -> 15]

IsHex(c) == c \in DOMAIN HexDigit

\* regexp.MatchString("#?[a-fA-F0-9]{6}", hex): the pattern has no anchors,
\* so it matches when six hex digits in a row occur anywhere in hex
MatchString(str) ==
    \E i \in 1..(Len(str) - 5) : \A j \in i..(i + 5) : IsHex(str[j])

\* strings.TrimPrefix(hex, "#")
TrimPrefix(str) == IF str # <<>> /\ str[1] = "#" THEN Tail(str) ELSE str

\* the value of strconv.ParseInt(s, 16, 0) for a string s of two bytes: a
\* sign may come first, and the value is 0 when ParseInt returns an error
ParseInt(s) ==
    IF IsHex(s[1]) /\ IsHex(s[2]) THEN 16 * HexDigit[s[1]] + HexDigit[s[2]]
    ELSE IF s[1] = "+" /\ IsHex(s[2]) THEN HexDigit[s[2]]
    ELSE IF s[1] = "-" /\ IsHex(s[2]) THEN 0 - HexDigit[s[2]]
    ELSE 0

\* r, g, b of SetColorHex: hex[0:2], hex[2:4], hex[4:6] parsed
ParsedRGB(str) ==
    <<ParseInt(SubSeq(str, 1, 2)), ParseInt(SubSeq(str, 3, 4)),
      ParseInt(SubSeq(str, 5, 6))>>

\* the ints that two bytes of a string given to SetColorHex can parse to
HexInts == {ParseInt(<<a, b>>) : a, b \in HexAlphabet}

\* "scale down" and "gamma correct" of ToXyY, kept per channel value
linear == [n \in Levels \cup AnyInts \cup HexInts |-> GammaExpand(ScaleDown(n))]

\* "convert to XYZ in wide RGB D65 space"
WideRGBToXYZ(rf, gf, bf) ==
    [X |-> FAdd(FAdd(FMul(rf, Micro(664511)), FMul(gf, Micro(154324))), FMul(bf, Micro(162028))),
     Y |-> FAdd(FAdd(FMul(rf, Micro(283881)), FMul(gf, Micro(668433))), FMul(bf, Micro(47685))),
     Z |-> FAdd(FAdd(FMul(rf, Micro(88)), FMul(gf, Micro(72310))), FMul(bf, Micro(986039)))]

\* if math.IsNaN(v) { v = 0.0 }
NaNToZero(v) == IF IsNaN(v) THEN 0 ELSE v

\* X + Y + Z
Sum(c) == FAdd(FAdd(c.X, c.Y), c.Z)

\* x = X / (X + Y + Z), y = Y / (X + Y + Z), each with its NaN test
Normalise(c) ==
    [x |-> NaNToZero(FDiv(c.X, Sum(c))), y |-> NaNToZero(FDiv(c.Y, Sum(c))), Y |-> c.Y]

\* x and y of ToXyY before the containment test, and Y
Chromaticity(r, g, b) == Normalise(WideRGBToXYZ(linear[r], linear[g], linear[b]))

\* what ToXyY returns, with the x0, y0 it had before the containment test
XyYResult(c, p) == [x |-> p.x, y |-> p.y, Y |-> c.Y, x0 |-> c.x, y0 |-> c.y]

\* ToXyY without its containment test
Contain_NoTest(gamut, c) == XyYResult(c, c)

\* the containment test of ToXyY on the chromaticity c
Contain(gamut, c) ==
    IF ~inLampsReach(gamut, c.x, c.y)
    THEN XyYResult(c, closestPointOnTriangle(gamut, c.x, c.y))
    ELSE XyYResult(c, c)

ToXyY(gamut, r, g, b) == Contain(gamut, Chromaticity(r, g, b))

\* the "reverse gamma correction" step of ToRGB on one linear channel
GammaCompress(c) ==
    IF FLe(c, 31308)
    THEN FMul(c, Micro(12920000))
    ELSE FSub(FMul(FAdd(Float(1), Micro(55000)), PowInvGamma(c)), Micro(55000))

\* "Scale up": what ToRGB returns, with the x, y it converted and the
\* channels rf, gf, bf it scaled
Scaled(p, rf, gf, bf) ==
    [r |-> ToUint8(CeilScaled(rf)), g |-> ToUint8(CeilScaled(gf)),
     b |-> ToUint8(CeilScaled(bf)),
     x |-> p.x, y |-> p.y, rf |-> rf, gf |-> gf, bf |-> bf]

\* "Normalize around largest value if a value is > 1"
Normalized(p, rf, gf, bf, max) ==
    IF FGt(max, Float(1))
    THEN Scaled(p, FDiv(rf, max), FDiv(gf, max), FDiv(bf, max))
    ELSE Scaled(p, rf, gf, bf)

\* "Reverse gamma correction" done: rf, gf, bf are gamma encoded
Encoded(p, rf, gf, bf) == Normalized(p, rf, gf, bf, FMax(FMax(rf, gf), bf))

\* "Convert to RGB using Wide RGB D65 conversion"
XYZToWideRGB(p, X, Y, Z) ==
    Encoded(p,
        GammaCompress(FSub(FSub(FMul(X, Micro(1656492)), FMul(Y, Micro(354851))),
                           FMul(Z, Micro(255038)))),
        GammaCompress(FAdd(FAdd(FMul(FNeg(X), Micro(707196)), FMul(Y, Micro(1655397))),
                           FMul(Z, Micro(36152)))),
        GammaCompress(FAdd(FSub(FMul(X, Micro(51713)), FMul(Y, Micro(121364))),
                           FMul(Z, Micro(1011530)))))

\* z := 1.0 - x - y; Y := bri; X := (Y / y) * x; Z := (Y / y) * z
XyYToXYZ(p, z, Y) ==
    XYZToWideRGB(p, FMul(FDiv(Y, p.y), p.x), Y, FMul(FDiv(Y, p.y), z))

\* ToRGB after its containment test left it with the point p
Converted(p, bri) == XyYToXYZ(p, FSub(FSub(Float(1), p.x), p.y), bri)

ToRGB(gamut, px, py, bri) ==
    IF ~inLampsReach(gamut, px, py)
    THEN Converted(closestPointOnTriangle(gamut, px, py), bri)
    ELSE Converted(Point(px, py), bri)

\* degrees are kept in 1/100000: the float64 360.0 is 360 * Degree
Degree == Unit \div 100

\* h *= 360.0
HueDegrees(h) == Sgn(h) * RoundHalfUp(MulDivQR(Abs(h), 360, 100), 100)

\* l of rgbToHsl taken as max
Lightness_Max(max, min) == max

\* l = (max + min) / 2.0
Lightness(max, min) == FDiv(FAdd(max, min), Float(2))

\* s of rgbToHsl when max != min
Saturation(l, d, max, min) ==
    IF FGt(l, Unit \div 2)
    THEN FDiv(d, FSub(FSub(Float(2), max), min))
    ELSE FDiv(d, FAdd(max, min))

\* the switch of rgbToHsl without "if gf < bf { h += 6 }"
HueSextant_NoWrap(rf, gf, bf, max, d) ==
    IF FEq(max, rf) THEN FDiv(FSub(gf, bf), d)
    ELSE IF FEq(max, gf) THEN FAdd(FDiv(FSub(bf, rf), d), Float(2))
    ELSE IF FEq(max, bf) THEN FAdd(FDiv(FSub(rf, gf), d), Float(4))
    ELSE 0

\* h of rgbToHsl after its switch on max: the first case that == max is taken
HueSextant(rf, gf, bf, max, d) ==
    IF FEq(max, rf)
    THEN (IF FLt(gf, bf) THEN FAdd(FDiv(FSub(gf, bf), d), Float(6))
          ELSE FDiv(FSub(gf, bf), d))
    ELSE IF FEq(max, gf) THEN FAdd(FDiv(FSub(bf, rf), d), Float(2))
    ELSE IF FEq(max, bf) THEN FAdd(FDiv(FSub(rf, gf), d), Float(4))
    ELSE 0

\* rgbToHsl from the scaled channels and their max and min
HslFrom(rf, gf, bf, max, min) ==
    IF FEq(max, min)
    THEN [h |-> HueDegrees(0), s |-> 0, l |-> Lightness(max, min)]
    ELSE [h |-> HueDegrees(FDiv(HueSextant(rf, gf, bf, max, FSub(max, min)), Float(6))),
          s |-> Saturation(Lightness(max, min), FSub(max, min), max, min),
          l |-> Lightness(max, min)]

\* rgbToHsl from the scaled channels
HslOf(rf, gf, bf) ==
    HslFrom(rf, gf, bf, FMax(FMax(rf, gf), bf), FMin(FMin(rf, gf), bf))

rgbToHsl(r, g, b) == HslOf(ScaleDown(r), ScaleDown(g), ScaleDown(b))

\* the h, s, l of what ToRGB returned
HslOfRGB(c) == rgbToHsl(c.r, c.g, c.b)

ToHSL(gamut, px, py, bri) == HslOfRGB(ToRGB(gamut, px, py, bri))

---------------------------------------------------------------------------
(* the Light methods and the calls into the conversion engine *)

zeroGamut == [red |-> Point(0, 0), green |-> Point(0, 0), blue |-> Point(0, 0)]

\* no conversion call made yet
NoCall ==
    [fn |-> "none", after |-> "", gamut |-> zeroGamut, args |-> <<>>, ret |-> <<>>,
     ok |-> TRUE, locals |-> <<>>]

\* the package's gamut variables as their declarations initialise them
GamutVars ==
    [n \in {"gamutA", "gamutB", "gamutC", "gamutD"} |->
        CASE n = "gamutA" -> gamutA
          [] n = "gamutB" -> gamutB
          [] n = "gamutC" -> gamutC
          [] n = "gamutD" -> gamutD]

\* no call of GetMeetHueScenes made
NoFetch ==
    [pc |-> "idle", site |-> <<>>, pageNum |-> 0, requested |-> <<>>,
     scenes |-> <<>>, ret |-> <<>>, err |-> FALSE]

\* nothing logged, no goroutine started, no scenes asked for, no string given
Quiet ==
    /\ gamuts = GamutVars
    /\ stdlog = {}
    /\ procs = <<>>
    /\ fetch = NoFetch
    /\ hex = <<>>

\* log.Printf("Not in reach") of ToXyY and ToRGB when (x, y) is outside gamut
Logged(gamut, x, y) ==
    IF ~inLampsReach(gamut, x, y) THEN stdlog \cup {"Not in reach"} ELSE stdlog

\* int(math.Ceil(Y*255.0)): the rounding of SetColorRGB without its - 0.5
BrightnessOf_Ceil(Y) ==
    MulDivQR(Y, 255, Unit)[1] + (IF MulDivQR(Y, 255, Unit)[2] > 0 THEN 1 ELSE 0)

\* int(math.Ceil(Y*255.0 - 0.5)) of SetColorRGB
BrightnessOf(Y) == CeilScaled(Y)

\* Light.SetColorRGB(r, g, b)
SetColorRGB ==
    \E v \in {ToXyY(GetGamut(model), rgb[1], rgb[2], rgb[3])} :
        /\ xy' = <<v.x, v.y>>
        /\ brightness' = BrightnessOf(v.Y)
        /\ call' = [fn |-> "ToXyY", after |-> "", gamut |-> GetGamut(model),
                    args |-> rgb, ret |-> <<v.x, v.y, v.Y>>, ok |-> TRUE,
                    locals |-> <<v.x0, v.y0>>]
        /\ stdlog' = Logged(GetGamut(model), v.x0, v.y0)
        /\ UNCHANGED <<model, build, rgb, gamuts, procs, fetch, hex>>

\* Light.GetColorRGB()
GetColorRGB ==
    \E bri \in {ScaleDown(brightness)} :
      \E c \in {ToRGB(GetGamut(model), xy[1], xy[2], bri)} :
        /\ call' = [fn |-> "ToRGB", after |-> "", gamut |-> GetGamut(model),
                    args |-> <<xy[1], xy[2], bri>>, ret |-> <<c.r, c.g, c.b>>,
                    ok |-> TRUE, locals |-> <<c.x, c.y, c.rf, c.gf, c.bf>>]
        /\ stdlog' = Logged(GetGamut(model), xy[1], xy[2])
        /\ UNCHANGED <<model, xy, brightness, build, rgb, gamuts, procs, fetch, hex>>

\* gamut.ToRGB(gamut.ToXyY(r, g, b)): ToRGB on what ToXyY just returned
CallToRGB ==
    /\ call.fn = "ToXyY"
    /\ \E c \in {ToRGB(call.gamut, call.ret[1], call.ret[2], call.ret[3])} :
        call' = [fn |-> "ToRGB", after |-> "ToXyY", gamut |-> call.gamut,
                 args |-> call.ret, ret |-> <<c.r, c.g, c.b>>,
                 ok |-> TRUE, locals |-> <<c.x, c.y, c.rf, c.gf, c.bf>>]
    /\ stdlog' = Logged(call.gamut, call.ret[1], call.ret[2])
    /\ UNCHANGED <<model, xy, brightness, build, rgb, gamuts, procs, fetch, hex>>

\* GetGamut(model)
CallGetGamut ==
    /\ call' = [fn |-> "GetGamut", after |-> "", gamut |-> GetGamut(model),
                args |-> <<model>>, ret |-> <<>>, ok |-> TRUE, locals |-> <<>>]
    /\ UNCHANGED <<model, xy, brightness, build, rgb, gamuts, stdlog, procs, fetch, hex>>

\* gamut.inLampsReach(x, y) on the gamut of the model
CallInLampsReach ==
    /\ call' = [fn |-> "inLampsReach", after |-> "", gamut |-> GetGamut(model),
                args |-> xy, ret |-> <<>>,
                ok |-> inLampsReach(GetGamut(model), xy[1], xy[2]), locals |-> <<>>]
    /\ UNCHANGED <<model, xy, brightness, build, rgb, gamuts, stdlog, procs, fetch, hex>>

\* gamut.closestPointOnTriangle(x, y) on the gamut of the model
CallClosestPointOnTriangle ==
    /\ \E p \in {closestPointOnTriangle(GetGamut(model), xy[1], xy[2])} :
        call' = [fn |-> "closestPointOnTriangle", after |-> "",
                 gamut |-> GetGamut(model), args |-> xy, ret |-> <<p.x, p.y>>,
                 ok |-> TRUE, locals |-> <<>>]
    /\ UNCHANGED <<model, xy, brightness, build, rgb, gamuts, stdlog, procs, fetch, hex>>

\* rgbToHsl(r, g, b)
CallRgbToHsl ==
    /\ \E c \in {rgbToHsl(rgb[1], rgb[2], rgb[3])} :
        call' = [fn |-> "rgbToHsl", after |-> "", gamut |-> zeroGamut,
                 args |-> rgb, ret |-> <<c.h, c.s, c.l>>, ok |-> TRUE,
                 locals |-> <<>>]
    /\ UNCHANGED <<model, xy, brightness, build, rgb, gamuts, stdlog, procs, fetch, hex>>

\* the model identifiers of the table of GetGamut and three it does not list
ModelIds ==
    {"LST001", "LLC010", "LLC011", "LLC012", "LLC006", "LLC007", "LLC013",
     "LCT001", "LCT007", "LCT002", "LCT003", "LLM001",
     "LCT010", "LCT014", "LCT011", "LLC020", "LST002",
     "", "LCT999", "lct001"}

\* one light model per gamut, and the empty identifier
LightModels == {"LST001", "LCT001", "LCT010", "LCT999", ""}

Gamuts == {gamutA, gamutB, gamutC, gamutD}

Centroid(gamut) ==
    Point(DivRound(gamut.red.x + gamut.green.x + gamut.blue.x, Float(3)),
          DivRound(gamut.red.y + gamut.green.y + gamut.blue.y, Float(3)))

Vertices(gamut) == {gamut.red, gamut.green, gamut.blue}

\* the points asked about: every gamut's vertices and centroid, the far point
\* (2,2), and a grid over [-1/2, 3/2] x [-1/2, 3/2]
GridN == 4
ProbePoints ==
    UNION {Vertices(g) \cup {Centroid(g)} : g \in Gamuts}
    \cup {Point(Float(2), Float(2))}
    \cup {Point(DivRound(2 * i - GridN, 2 * GridN), DivRound(2 * j - GridN, 2 * GridN)) :
            i \in 0..(2 * GridN), j \in 0..(2 * GridN)}

\* what a hub reports for a light: chromaticities with y = 0 among them
BriSteps == 2
HubBrightness == {(255 * k) \div BriSteps : k \in 0..BriSteps}
HubXy ==
    UNION {Vertices(g) \cup {Centroid(g)} : g \in Gamuts}
    \cup {Point(Unit \div 2, 0), Point(Dec4(3227), Dec4(3290))}

\* a Light as constructed, about to be given a colour
InitNew ==
    /\ model \in LightModels
    /\ xy = <<0, 0>>
    /\ brightness = 0
    /\ build \in Builds
    /\ rgb \in Levels \X Levels \X Levels
    /\ call = NoCall
    /\ Quiet

\* a Light as Session.Lights decoded it from the hub
InitHub ==
    /\ model \in LightModels
    /\ \E p \in HubXy : xy = <<p.x, p.y>>
    /\ brightness \in HubBrightness
    /\ build \in Builds
    /\ rgb = <<0, 0, 0>>
    /\ call = NoCall
    /\ Quiet

Init == InitNew \/ InitHub

Next == SetColorRGB \/ GetColorRGB \/ CallToRGB

Spec == Init /\ [][Next]_vars

\* a Light about to be given a colour by a caller that passes any ints
InitAnyInt ==
    /\ model \in LightModels
    /\ xy = <<0, 0>>
    /\ brightness = 0
    /\ build \in Builds
    /\ rgb \in AnyInts \X AnyInts \X AnyInts
    /\ call = NoCall
    /\ Quiet

NextAnyInt == SetColorRGB

SpecAnyInt == InitAnyInt /\ [][NextAnyInt]_vars

\* the uint8 values rgbToHsl is given
ByteSteps == 4
Bytes == {(255 * k) \div ByteSteps : k \in 0..ByteSteps} \cup {1, 2, 254}

\* rgbToHsl, asked about directly
InitHsl ==
    /\ model = ""
    /\ xy = <<0, 0>>
    /\ brightness = 0
    /\ build = "nan_min"
    /\ rgb \in Bytes \X Bytes \X Bytes
    /\ call = NoCall
    /\ Quiet

NextHsl == CallRgbToHsl

SpecHsl == InitHsl /\ [][NextHsl]_vars

\* the geometry of the gamuts, asked about directly
InitGeom ==
    /\ model \in ModelIds
    /\ \E p \in ProbePoints : xy = <<p.x, p.y>>
    /\ brightness = 0
    /\ build = "nan_min"
    /\ rgb = <<0, 0, 0>>
    /\ call = NoCall
    /\ Quiet

NextGeom == CallGetGamut \/ CallInLampsReach \/ CallClosestPointOnTriangle

SpecGeom == InitGeom /\ [][NextGeom]_vars

---------------------------------------------------------------------------
(* goroutines that call GetGamut, ToXyY, ToRGB and ToHSL at the same time *)

Goroutines == {1, 2}

\* the package variable that GetGamut(model) returns a copy of
VarOf(m) == CHOOSE n \in DOMAIN GamutVars : GamutVars[n] = GetGamut(m)

XyYOf(v) == <<v.x, v.y, v.Y>>
RGBOf(c) == <<c.r, c.g, c.b>>
HSLOf(c) == <<c.h, c.s, c.l>>

\* what the method fn returns on the gamut it is called on
RunOn(fn, gamut, args) ==
    CASE fn = "ToXyY" -> XyYOf(ToXyY(gamut, args[1], args[2], args[3]))
      [] fn = "ToRGB" -> RGBOf(ToRGB(gamut, args[1], args[2], args[3]))
      [] fn = "ToHSL" -> HSLOf(ToHSL(gamut, args[1], args[2], args[3]))

\* the result of the call when nothing else runs
Alone(fn, m, args) ==
    IF fn = "GetGamut" THEN <<GetGamut(m)>> ELSE RunOn(fn, GetGamut(m), args)

PointOf(c) == <<c.x, c.y>>

\* the point that the method tests with inLampsReach
TestPoint(fn, args) ==
    IF fn = "ToXyY" THEN PointOf(Chromaticity(args[1], args[2], args[3]))
    ELSE <<args[1], args[2]>>

\* a conversion that assigns the gamut variable it read
GamutVarsAfter_Assigned(gs, n) == [gs EXCEPT ![n] = gamutD]

\* the package's gamut variables after a conversion has run on its copy of
\* the variable n: no statement of the four functions assigns them
GamutVarsAfter(gs, n) == gs

\* gamut := GetGamut(model): the switch and the copy of the package variable
Enter(p) ==
    /\ procs[p].pc = "call"
    /\ procs' = [procs EXCEPT
                   ![p].gamut = gamuts[VarOf(procs[p].model)],
                   ![p].ret = IF procs[p].fn = "GetGamut"
                              THEN <<gamuts[VarOf(procs[p].model)]>> ELSE @,
                   ![p].pc = IF procs[p].fn = "GetGamut" THEN "done" ELSE "test"]
    /\ UNCHANGED <<model, xy, brightness, build, rgb, call, gamuts, stdlog, fetch, hex>>

\* the method up to its containment test, and the log line of the test
Test(p) ==
    /\ procs[p].pc = "test"
    /\ \E t \in {TestPoint(procs[p].fn, procs[p].args)} :
          stdlog' = Logged(procs[p].gamut, t[1], t[2])
    /\ gamuts' = GamutVarsAfter(gamuts, VarOf(procs[p].model))
    /\ procs' = [procs EXCEPT ![p].pc = "return"]
    /\ UNCHANGED <<model, xy, brightness, build, rgb, call, fetch, hex>>

\* the rest of the method and its return
Return(p) ==
    /\ procs[p].pc = "return"
    /\ procs' = [procs EXCEPT
                   ![p].ret = RunOn(procs[p].fn, procs[p].gamut, procs[p].args),
                   ![p].pc = "done"]
    /\ UNCHANGED <<model, xy, brightness, build, rgb, call, gamuts, stdlog, fetch, hex>>

\* the calls the goroutines make: one inside and one outside the gamut for
\* every method
Job(fn, m, args) ==
    [pc |-> "call", fn |-> fn, model |-> m, args |-> args, gamut |-> zeroGamut,
     ret |-> <<>>]

Jobs ==
    {Job("GetGamut", m, <<>>) : m \in {"LCT001", "LCT999"}}
    \cup {Job("ToXyY", m, a) : m \in {"LCT001", "LST001"},
                               a \in {<<255, 0, 0>>, <<128, 128, 128>>}}
    \cup {Job(fn, "LCT010", a) : fn \in {"ToRGB", "ToHSL"},
                                 a \in {<<Dec4(3000), Dec4(3000), Float(1)>>,
                                        <<Dec4(1000), Dec4(8000), Unit \div 2>>}}

InitConc ==
    /\ model = ""
    /\ xy = <<0, 0>>
    /\ brightness = 0
    /\ build \in Builds
    /\ rgb = <<0, 0, 0>>
    /\ call = NoCall
    /\ gamuts = GamutVars
    /\ stdlog = {}
    /\ procs \in [Goroutines -> Jobs]
    /\ fetch = NoFetch
    /\ hex = <<>>

NextConc == \E p \in Goroutines : Enter(p) \/ Test(p) \/ Return(p)

SpecConc == InitConc /\ [][NextConc]_vars

---------------------------------------------------------------------------
(* MeetHueSession.GetMeetHueScenes and the site it asks *)

MaxPages == 3
MaxScenes == 2
MaxRequests == 4

\* a site is its pages in order, each page the number of scenes on it
Sites == UNION {[1..n -> 0..MaxScenes] : n \in 1..MaxPages}

\* the scenes that page k of the site lists, in the order it lists them
PageScenes(site, k) == [i \in 1..site[k] |-> <<k, i>>]

\* the scenes of pages 1..k in page order
RECURSIVE ScenesUpTo(_, _)
ScenesUpTo(site, k) ==
    IF k = 0 THEN <<>> ELSE ScenesUpTo(site, k - 1) \o PageScenes(site, k)

\* "hasnextpage" of page k
HasNextPage(site, k) == k < Len(site)

\* if page.Pagination.HasNext { break }
Break(hasNext) == hasNext

\* one turn of the loop on a page the site has: request, decode, append,
\* then break or pageNum++
FetchPage ==
    /\ fetch.pc = "loop"
    /\ Len(fetch.requested) < MaxRequests
    /\ fetch.pageNum <= Len(fetch.site)
    /\ \E got \in {fetch.scenes \o PageScenes(fetch.site, fetch.pageNum)} :
          fetch' = IF Break(HasNextPage(fetch.site, fetch.pageNum))
                   THEN [fetch EXCEPT !.requested = Append(@, fetch.pageNum),
                                      !.scenes = got, !.ret = got, !.pc = "done"]
                   ELSE [fetch EXCEPT !.requested = Append(@, fetch.pageNum),
                                      !.scenes = got, !.pageNum = @ + 1]
    /\ UNCHANGED <<model, xy, brightness, build, rgb, call, gamuts, stdlog, procs, hex>>

\* one turn of the loop on a page number past the last page: the site answers
\* with an error, or with a page without scenes whose hasnextpage is false
FetchBeyond ==
    /\ fetch.pc = "loop"
    /\ Len(fetch.requested) < MaxRequests
    /\ fetch.pageNum > Len(fetch.site)
    /\ \E answer \in {"error", "empty"} :
          fetch' = IF answer = "error"
                   THEN [fetch EXCEPT !.requested = Append(@, fetch.pageNum),
                                      !.ret = <<>>, !.err = TRUE, !.pc = "done"]
                   ELSE [fetch EXCEPT !.requested = Append(@, fetch.pageNum),
                                      !.pageNum = @ + 1]
    /\ UNCHANGED <<model, xy, brightness, build, rgb, call, gamuts, stdlog, procs, hex>>

\* http.Get or the decoding fails: return nil, err
FetchFail ==
    /\ fetch.pc = "loop"
    /\ Len(fetch.requested) < MaxRequests
    /\ fetch.pageNum <= Len(fetch.site)
    /\ fetch' = [fetch EXCEPT !.requested = Append(@, fetch.pageNum),
                              !.ret = <<>>, !.err = TRUE, !.pc = "done"]
    /\ UNCHANGED <<model, xy, brightness, build, rgb, call, gamuts, stdlog, procs, hex>>

\* GetMeetHueScenes entered: pageNum := 1, no scenes yet
InitScenes ==
    /\ model = ""
    /\ xy = <<0, 0>>
    /\ brightness = 0
    /\ build = "nan_min"
    /\ rgb = <<0, 0, 0>>
    /\ call = NoCall
    /\ gamuts = GamutVars
    /\ stdlog = {}
    /\ procs = <<>>
    /\ \E site \in Sites :
          fetch = [pc |-> "loop", site |-> site, pageNum |-> 1,
                   requested |-> <<>>, scenes |-> <<>>, ret |-> <<>>,
                   err |-> FALSE]
    /\ hex = <<>>

NextScenes == FetchPage \/ FetchBeyond \/ FetchFail

SpecScenes == InitScenes /\ [][NextScenes]_vars

---------------------------------------------------------------------------
(* NewSession and the hub it registers with *)

\* a string is the sequence of its bytes
MaxLen == 41
Usernames == {[i \in 1..n |-> "u"] : n \in 0..MaxLen}

\* the hub's address
HubAddress == <<"h">>

\* the username the hub makes up when none is posted
Generated == [i \in 1..32 |-> "g"]

\* what comes back from the POST: no answer, bytes that are not the JSON
\* expected, an empty list, a "success" element or an "error" element
HubAnswers == {"refused", "garbage", "empty list", "success", "error"}

\* username != "" && len(username) < 10
TooShort(username) == username # <<>> /\ Len(username) < 10

\* postData
PostData(username) ==
    IF username # <<>>
    THEN [devicetype |-> "go-hue user", username |-> username]
    ELSE [devicetype |-> "go-hue user"]

\* the zero Session
NoSession == <<<<>>, <<>>>>

\* NewSession from the POST on: its Session, whether err is nil, and "panic"
\* when responses[0] is out of range
Registered(ipAddress, username, answer) ==
    CASE answer \in {"refused", "garbage", "error"} ->
            [ret |-> NoSession, ok |-> FALSE, after |-> ""]
      [] answer = "empty list" ->
            [ret |-> <<>>, ok |-> FALSE, after |-> "panic"]
      [] answer = "success" ->
            [ret |-> <<ipAddress,
                       IF username # <<>> THEN username ELSE Generated>>,
             ok |-> TRUE, after |-> ""]

\* NewSession(ipAddress, username)
NewSession ==
    \E username \in Usernames, answer \in HubAnswers :
        /\ IF TooShort(username)
           THEN /\ call' = [fn |-> "NewSession", after |-> "", gamut |-> zeroGamut,
                            args |-> <<HubAddress, username>>, ret |-> NoSession,
                            ok |-> FALSE, locals |-> <<>>]
                /\ stdlog' = stdlog
           ELSE /\ \E out \in {Registered(HubAddress, username, answer)} :
                      call' = [fn |-> "NewSession", after |-> out.after,
                               gamut |-> zeroGamut,
                               args |-> <<HubAddress, username>>,
                               ret |-> out.ret, ok |-> out.ok,
                               locals |-> <<PostData(username), answer>>]
                /\ stdlog' = IF answer = "refused" THEN stdlog
                             ELSE stdlog \cup {"Got from hub"}
        /\ UNCHANGED <<model, xy, brightness, build, rgb, gamuts, procs, fetch, hex>>

InitSession ==
    /\ model = ""
    /\ xy = <<0, 0>>
    /\ brightness = 0
    /\ build = "nan_min"
    /\ rgb = <<0, 0, 0>>
    /\ call = NoCall
    /\ Quiet

NextSession == NewSession

SpecSession == InitSession /\ [][NextSession]_vars

---------------------------------------------------------------------------
(* Light.SetColorHex *)

\* the strings given to SetColorHex: six bytes or five, each "f" or "0", or
\* one of four other middles, with something or nothing before and after,
\* and one string that starts with a sign
HexCores ==
    UNION {[1..n -> {"f", "0"}] : n \in {5, 6}}
    \cup {<<"F", "F", "0", "0", "f", "f">>, <<"f", "f", "x", "0", "0", "0">>,
          <<"f", "f">>, <<>>}
HexPrefixes == {<<>>, <<"#">>, <<"#", "#">>, <<"x">>, <<"f">>}
HexSuffixes == {<<>>, <<"0">>, <<"x">>}
HexStrings ==
    {p \o c \o q : p \in HexPrefixes, c \in HexCores, q \in HexSuffixes}
    \cup {<<"-", "f", "f", "f", "f", "f", "f">>}

\* the colour the light has before SetColorHex
HexLight == [xy |-> <<Dec4(3000), Dec4(3000)>>, brightness |-> 100]

\* Light.SetColorHex(hex)
SetColorHex ==
    IF ~MatchString(hex)
    THEN /\ call' = [fn |-> "SetColorHex", after |-> "", gamut |-> zeroGamut,
                     args |-> <<hex>>, ret |-> <<>>, ok |-> FALSE,
                     locals |-> <<>>]
         /\ UNCHANGED <<model, xy, brightness, build, rgb, gamuts, stdlog,
                        procs, fetch, hex>>
    ELSE \E c \in {ParsedRGB(TrimPrefix(hex))} :
           \E v \in {ToXyY(GetGamut(model), c[1], c[2], c[3])} :
             /\ rgb' = c
             /\ xy' = <<v.x, v.y>>
             /\ brightness' = BrightnessOf(v.Y)
             /\ call' = [fn |-> "SetColorHex", after |-> "ToXyY",
                         gamut |-> GetGamut(model), args |-> <<hex>>,
                         ret |-> <<v.x, v.y, v.Y>>, ok |-> TRUE,
                         locals |-> <<v.x0, v.y0>>]
             /\ stdlog' = Logged(GetGamut(model), v.x0, v.y0)
             /\ UNCHANGED <<model, build, gamuts, procs, fetch, hex>>

InitHex ==
    /\ model \in {"LCT001", "LCT999"}
    /\ xy = HexLight.xy
    /\ brightness = HexLight.brightness
    /\ build = "nan_min"
    /\ rgb = <<0, 0, 0>>
    /\ call = NoCall
    /\ gamuts = GamutVars
    /\ stdlog = {}
    /\ procs = <<>>
    /\ fetch = NoFetch
    /\ hex \in HexStrings

NextHex == SetColorHex

SpecHex == InitHex /\ [][NextHex]_vars


---------------------------------------------------------------------------
(* GetGamut, inLampsReach and closestPointOnTriangle *)

ListedA == {"LST001", "LLC010", "LLC011", "LLC012", "LLC006", "LLC007", "LLC013"}
ListedB == {"LCT001", "LCT007", "LCT002", "LCT003", "LLM001"}
ListedC == {"LCT010", "LCT014", "LCT011", "LLC020", "LST002"}

\* C1: GetGamut is a total lookup: a listed model identifier gets the gamut
\* it is listed under (A, B or C), and every other string, the empty string
\* included, gets gamut D with red = (1,0), green = (0,1), blue = (0,0).
C1_GetGamutTotal ==
    call.fn = "GetGamut" =>
        /\ call.gamut \in Gamuts
        /\ model \in ListedA => call.gamut = gamutA
        /\ model \in ListedB => call.gamut = gamutB
        /\ model \in ListedC => call.gamut = gamutC
        /\ model \notin ListedA \cup ListedB \cup ListedC =>
              call.gamut = [red |-> Point(Unit, 0), green |-> Point(0, Unit),
                            blue |-> Point(0, 0)]

\* GetGamut was asked about the empty string and about the last listed
\* identifier of gamut B
C1_Witness ==
    \/ call.fn = "GetGamut" /\ model = "" /\ call.gamut = gamutD
    \/ call.fn = "GetGamut" /\ model = "LLM001" /\ call.gamut = gamutB

\* a coordinate given in ten-thousandths
Exact(c) == c \div 1000
IsExact(p) == p[1] % 1000 = 0 /\ p[2] % 1000 = 0

\* s >= 0, t >= 0 and s + t <= 1 for the solution s, t of
\* p - red = s (green - red) + t (blue - red), decided in exact integer
\* arithmetic on coordinates given in ten-thousandths
InTriangleExact(g, p) ==
    LET v1x == Exact(g.green.x) - Exact(g.red.x)
        v1y == Exact(g.green.y) - Exact(g.red.y)
        v2x == Exact(g.blue.x) - Exact(g.red.x)
        v2y == Exact(g.blue.y) - Exact(g.red.y)
        qx  == Exact(p[1]) - Exact(g.red.x)
        qy  == Exact(p[2]) - Exact(g.red.y)
        D   == v1x * v2y - v1y * v2x
        Ns  == qx * v2y - qy * v2x
        Nt  == v1x * qy - v1y * qx
    IN  /\ Sgn(D) * Ns >= 0
        /\ Sgn(D) * Nt >= 0
        /\ Sgn(D) * (Ns + Nt) <= Sgn(D) * D

\* C2: inLampsReach is true for the three vertices and the centroid of the
\* gamut asked, false for (2,2), and true exactly when the coordinates s, t
\* of the point in the basis (green-red, blue-red) with red as origin
\* satisfy s >= 0, t >= 0 and s + t <= 1.
C2_InLampsReach ==
    call.fn = "inLampsReach" =>
        /\ Point(xy[1], xy[2]) \in Vertices(call.gamut) \cup {Centroid(call.gamut)}
              => call.ok
        /\ xy = <<Float(2), Float(2)>> => ~call.ok
        /\ IsExact(xy) => (call.ok <=> InTriangleExact(call.gamut, xy))

\* inLampsReach accepted the green vertex of gamut B, where s + t = 1
C2_Witness ==
    /\ call.fn = "inLampsReach"
    /\ call.gamut = gamutB
    /\ xy = <<gamutB.green.x, gamutB.green.y>>
    /\ call.ok

\* what two results may differ by and still count as the same float64
Tolerance == Unit \div (1000 * 1000)

\* the points sampled along each edge of a gamut
EdgeSteps == 4
EdgeSamples(g) ==
    {Along(e[1], Minus(e[2], e[1]), DivRound(k, EdgeSteps)) :
        e \in {<<g.red, g.green>>, <<g.blue, g.red>>, <<g.green, g.blue>>},
        k \in 0..EdgeSteps}

\* r is the first of pAB, pAC, pBC whose distance to p is the least of the three
FirstNearest(r, p, pAB, pAC, pBC) ==
    /\ r \in {pAB, pAC, pBC}
    /\ distance(p, r) <= distance(p, pAB)
    /\ distance(p, r) <= distance(p, pAC)
    /\ distance(p, r) <= distance(p, pBC)
    /\ r # pAB => distance(p, pAB) > distance(p, r)
    /\ r \notin {pAB, pAC} => distance(p, pAC) > distance(p, r)

\* C3: closestPointOnTriangle returns one of the projections of p onto the
\* edges red-green, blue-red and green-blue, the first in that order whose
\* distance to p is the least of the three, and no point sampled on an edge
\* is closer to p than the result (beyond the rounding of the arithmetic).
C3_ClosestPointOnTriangle ==
    call.fn = "closestPointOnTriangle" =>
        /\ FirstNearest(Point(call.ret[1], call.ret[2]), Point(xy[1], xy[2]),
              closestPointOnLine(call.gamut.red, call.gamut.green, Point(xy[1], xy[2])),
              closestPointOnLine(call.gamut.blue, call.gamut.red, Point(xy[1], xy[2])),
              closestPointOnLine(call.gamut.green, call.gamut.blue, Point(xy[1], xy[2])))
        /\ \A e \in EdgeSamples(call.gamut) :
              distance(Point(xy[1], xy[2]), Point(call.ret[1], call.ret[2]))
                 <= distance(Point(xy[1], xy[2]), e) + Tolerance

\* closestPointOnTriangle was given a point at the same distance from the
\* edges blue-red and green-blue, nearer than red-green, and returned the
\* projection onto blue-red
C3_Witness ==
    /\ call.fn = "closestPointOnTriangle"
    /\ closestPointOnLine(call.gamut.blue, call.gamut.red, Point(xy[1], xy[2]))
          # closestPointOnLine(call.gamut.green, call.gamut.blue, Point(xy[1], xy[2]))
    /\ distance(Point(xy[1], xy[2]),
                closestPointOnLine(call.gamut.blue, call.gamut.red, Point(xy[1], xy[2])))
          = distance(Point(xy[1], xy[2]),
                closestPointOnLine(call.gamut.green, call.gamut.blue, Point(xy[1], xy[2])))
    /\ Point(call.ret[1], call.ret[2])
          = closestPointOnLine(call.gamut.blue, call.gamut.red, Point(xy[1], xy[2]))
    /\ Point(call.ret[1], call.ret[2])
          # closestPointOnLine(call.gamut.red, call.gamut.green, Point(xy[1], xy[2]))

\* C4: for a point p that inLampsReach accepts, interior points included,
\* closestPointOnTriangle returns p itself.
C4_ClampIdempotent ==
    (call.fn = "closestPointOnTriangle" /\ inLampsReach(call.gamut, xy[1], xy[2])) =>
        /\ Abs(call.ret[1] - xy[1]) <= Tolerance
        /\ Abs(call.ret[2] - xy[2]) <= Tolerance


---------------------------------------------------------------------------
(* ToXyY, ToRGB and the Light methods *)

\* C5: the (x, y) ToXyY returns is not NaN and is accepted by inLampsReach of
\* the same gamut, whatever r, g, b are, and for black the chromaticity
\* before the containment test is (0,0).
C5_ToXyYInGamut ==
    call.fn = "ToXyY" =>
        /\ ~IsNaN(call.ret[1]) /\ ~IsNaN(call.ret[2])
        /\ inLampsReach(call.gamut, call.ret[1], call.ret[2])
        /\ rgb = <<0, 0, 0>> => call.locals = <<0, 0>>

\* ToXyY found the chromaticity of (r, g, b) inside the gamut and did not
\* replace it
Unclamped ==
    inLampsReach(call.gamut, Chromaticity(rgb[1], rgb[2], rgb[3]).x,
                 Chromaticity(rgb[1], rgb[2], rgb[3]).y)

\* C6: when ToXyY does not clamp (r, g, b), ToRGB of what ToXyY returned gives
\* back each of r, g, b within 1.
C6_RoundTrip ==
    (call.fn = "ToRGB" /\ call.after = "ToXyY" /\ Unclamped) =>
        \A i \in 1..3 : Abs(call.ret[i] - rgb[i]) <= 1

\* C7: for gamut B, ToXyY(255, 0, 0) returns x and y each within 1e-3 of the
\* red vertex (0.675, 0.322).
C7_RedIsRedVertexB ==
    (call.fn = "ToXyY" /\ call.gamut = gamutB /\ rgb = <<255, 0, 0>>) =>
        /\ Abs(call.ret[1] - Dec4(6750)) <= Unit \div 1000
        /\ Abs(call.ret[2] - Dec4(3220)) <= Unit \div 1000

\* ToXyY(255, 0, 0) was called for gamut B and returned the red vertex
C7_Witness ==
    /\ call.fn = "ToXyY" /\ call.gamut = gamutB /\ rgb = <<255, 0, 0>>
    /\ call.ret[1] = gamutB.red.x /\ call.ret[2] = gamutB.red.y

\* C8 as stated: SetColorRGB(255, 0, 0) on a light of gamut B stores
\* brightness 255.
C8_RedBrightness255 ==
    (call.fn = "ToXyY" /\ GetGamut(model) = gamutB /\ rgb = <<255, 0, 0>>) =>
        brightness = 255

\* C8 as amended: SetColorRGB(255, 0, 0) on a light of gamut B stores
\* brightness 72, which is ceil(Y*255 - 0.5) for the Y = 0.283881 of ToXyY.
C8_RedBrightness72 ==
    (call.fn = "ToXyY" /\ GetGamut(model) = gamutB /\ rgb = <<255, 0, 0>>) =>
        /\ call.ret[3] = Micro(283881)
        /\ brightness = 72

\* SetColorRGB(255, 0, 0) ran on a light of model "LCT001" and stored 72
C8_Witness ==
    /\ call.fn = "ToXyY" /\ model = "LCT001" /\ rgb = <<255, 0, 0>>
    /\ brightness = 72

\* C9: when the chromaticity ToRGB converts has y = 0 after the containment
\* test, ToRGB returns black (0,0,0) and computes with neither NaN nor an
\* infinity.
C9_ZeroYIsBlack ==
    (call.fn = "ToRGB" /\ call.locals[2] = 0) =>
        /\ call.ret = <<0, 0, 0>>
        /\ \A i \in 3..5 : Finite(call.locals[i])

\* ceil(c*255 - 0.5) clamped into 0..255
ScaleUpClamped(c) ==
    IF CeilScaled(c) < 0 THEN 0 ELSE IF CeilScaled(c) > 255 THEN 255 ELSE CeilScaled(c)

\* C10: each channel ToRGB returns is ceil(c*255 - 0.5) clamped into 0..255
\* for the gamma-encoded, rescaled channel c: a negative channel gives 0 and
\* no channel wraps around.
C10_ChannelsClamped ==
    call.fn = "ToRGB" =>
        \A i \in 1..3 :
            Finite(call.locals[i + 2]) => call.ret[i] = ScaleUpClamped(call.locals[i + 2])

\* C11: after SetColorRGB(r, g, b) the stored Brightness is ceil(Y*255 - 0.5)
\* for the Y that ToXyY returned, and it lies in 0..255 whatever ints r, g, b
\* are.
C11_BrightnessEncodable ==
    call.fn = "ToXyY" =>
        /\ brightness = CeilScaled(call.ret[3])
        /\ brightness \in 0..255

---------------------------------------------------------------------------
(* rgbToHsl *)

\* C12: rgbToHsl returns (0, 1, 0.5) for (255,0,0), (0, 0, 0) for (0,0,0)
\* and (0, 0, 1) for (255,255,255), and for every r = g = b it returns
\* h = 0, s = 0 and l = r/255.
C12_HslKnownValues ==
    call.fn = "rgbToHsl" =>
        /\ rgb = <<255, 0, 0>> => call.ret = <<0, Unit, Unit \div 2>>
        /\ rgb = <<0, 0, 0>> => call.ret = <<0, 0, 0>>
        /\ rgb = <<255, 255, 255>> => call.ret = <<0, 0, Unit>>
        /\ (rgb[1] = rgb[2] /\ rgb[2] = rgb[3]) =>
              call.ret = <<0, 0, DivRound(rgb[1], 255)>>

\* rgbToHsl was given pure red and returned lightness one half, and was given
\* a gray that is neither black nor white
C12_Witness ==
    /\ call.fn = "rgbToHsl"
    /\ \/ rgb = <<255, 0, 0>> /\ call.ret[3] = Unit \div 2
       \/ rgb[1] = rgb[2] /\ rgb[2] = rgb[3] /\ rgb[1] \notin {0, 255}
             /\ call.ret[1] = 0

\* C13: rgbToHsl returns h in [0, 360), s in [0, 1] and l in [0, 1] for all
\* r, g, b in 0..255, also when two channels tie for the maximum.
C13_HslRanges ==
    call.fn = "rgbToHsl" =>
        /\ \A i \in 1..3 : Finite(call.ret[i])
        /\ 0 <= call.ret[1] /\ call.ret[1] < 360 * Degree
        /\ 0 <= call.ret[2] /\ call.ret[2] <= Unit
        /\ 0 <= call.ret[3] /\ call.ret[3] <= Unit

\* rgbToHsl was given red and blue tied for the maximum above green, where
\* the hue wraps by 6, and returned 300 degrees to within a thousandth
C13_Witness ==
    /\ call.fn = "rgbToHsl"
    /\ rgb[1] = rgb[3] /\ rgb[2] < rgb[1]
    /\ Abs(call.ret[1] - 300 * Degree) <= Degree \div 1000

---------------------------------------------------------------------------
(* concurrent calls *)

\* every goroutine whose call has returned holds the result of that call
\* run alone
ResultsAlone ==
    \A p \in DOMAIN procs :
        procs[p].pc = "done" =>
            procs[p].ret = Alone(procs[p].fn, procs[p].model, procs[p].args)

---------------------------------------------------------------------------
(* GetMeetHueScenes *)

\* C15: against a site of N >= 1 pages, with no failed request, the call
\* requests pages 1..N once each in order and nothing else, and when it
\* returns it has requested all N pages and returns the scenes of all N
\* pages in page order.
C15_AllPagesInOrder ==
    (fetch.pc # "idle" /\ ~fetch.err) =>
        /\ Len(fetch.requested) <= Len(fetch.site)
        /\ \A i \in 1..Len(fetch.requested) : fetch.requested[i] = i
        /\ fetch.pc = "done" =>
              /\ Len(fetch.requested) = Len(fetch.site)
              /\ fetch.ret = ScenesUpTo(fetch.site, Len(fetch.site))

---------------------------------------------------------------------------
(* NewSession *)

\* C16: NewSession with a non-empty username shorter than 10 or longer than
\* 40 returns an error and the empty Session and posts nothing to the hub;
\* and it returns a Session only when the hub's first response carries a
\* success username.
C16_UsernameRule ==
    call.fn = "NewSession" =>
        /\ (/\ call.args[2] # <<>>
            /\ Len(call.args[2]) < 10 \/ Len(call.args[2]) > 40) =>
              /\ ~call.ok
              /\ call.ret = NoSession
              /\ call.locals = <<>>
        /\ (call.ok /\ call.ret # NoSession) =>
              call.locals[2] = "success"

---------------------------------------------------------------------------
(* SetColorHex *)

\* an optional "#" and then exactly six hex digits
SixDigits(str) ==
    \/ Len(str) = 6 /\ \A j \in 1..6 : IsHex(str[j])
    \/ Len(str) = 7 /\ str[1] = "#" /\ \A j \in 2..7 : IsHex(str[j])

\* the byte that digits i and i + 1 of the six encode
ByteAt(str, i) ==
    16 * HexDigit[str[Len(str) - 6 + i]] + HexDigit[str[Len(str) - 5 + i]]

\* C17: SetColorHex accepts exactly an optional "#" followed by exactly six
\* hex digits; for any other string it returns an error and leaves Xy and
\* Brightness as they were; for an accepted string it sets the colour from
\* the three bytes the digits encode.
C17_HexExact ==
    call.fn = "SetColorHex" =>
        IF SixDigits(call.args[1])
        THEN /\ call.ok
             /\ rgb = <<ByteAt(call.args[1], 1), ByteAt(call.args[1], 3),
                        ByteAt(call.args[1], 5)>>
        ELSE /\ ~call.ok
             /\ xy = HexLight.xy
             /\ brightness = HexLight.brightness

=============================================================================
